---- MODULE Spec2Model ----
(***************************************************************************)
(* Model of the DeathByChocolate solver: the chocolate bar (board), the    *)
(* open-addressed transposition table, the recursive evaluator, the AI     *)
(* move selector, the move-order oracle and the interactive game loop.     *)
(*                                                                         *)
(* A 64-bit hash_t is kept as four 16-bit lanes <<l0, l1, l2, l3>>         *)
(* (value = l0 + l1*2^16 + l2*2^32 + l3*2^48).  A float score is kept as   *)
(* an integer; FLT_MAX is an integer larger than every score.              *)
(***************************************************************************)
EXTENDS Integers, Sequences, FiniteSets, TLC

\* ---------------------------------------------------------------- bounds
MaxRows == 4
MaxColumns == 3
\* Table sizes the searches run with: 1..MaxSmallTable (soon saturated)
\* and LargeTable.
MaxSmallTable == 3
LargeTable == 127
\* The table driver: sizes 1..MaxCacheSize, at most MaxOps calls.
MaxCacheSize == 3
MaxOps == 4

\* ------------------------------------------------------------- constants
BarWidth == 65536
FLT_MAX == 1000000
MAX_ATTEMPTS == 100

VARIABLES
    bar,            \* the ChocolateBar in play
    table,          \* the TranspositionTable of the driver
    pc,             \* position of the driver
    prevBar,        \* the bar before the last MakeMove
    lastMove,       \* the last move made
    startBar,       \* the bar the driver constructed
    turns,          \* number of MakeMove calls on the bar since then
    before,         \* the table as the last call that took it found it
    result,         \* what the last search call returned
    replay,         \* what the same call returned again after Reset
    AIMovesFirst,   \* PlayAgainstAI: the local of that name
    outcome,        \* PlayAgainstAI: the line printed at the end
    ops,            \* table driver: number of calls made
    last,           \* table driver: the last call and what it returned
    prev,           \* table driver: the call before the last
    inserted        \* table driver: <<hash, score>> stored since the
                    \* construction or the last Reset

vars == <<bar, table, pc, prevBar, lastMove, startBar, turns, before,
          result, replay, AIMovesFirst, outcome, ops, last, prev, inserted>>

boardVars == <<bar, prevBar, lastMove, startBar, turns>>
searchVars == <<result, replay>>
gameVars == <<AIMovesFirst, outcome>>
cacheVars == <<ops, last, prev, inserted>>

\* ------------------------------------------------------------------ Move
Directions == {"HORIZONTAL", "VERTICAL"}

Move(dir, location) == [dir |-> dir, location |-> location]

\* ---------------------------------------------------------- ChocolateBar
\* The constructor takes (columns, rows, poison_column, poison_row).
ChocolateBar(_columns, _rows, _poison_column, _poison_row) ==
    [rows |-> _rows, columns |-> _columns,
     poison_row |-> _poison_row, poison_column |-> _poison_column]

CheckLost(b) == b.rows <= 1 /\ b.columns <= 1

\* The debug branch of CheckLost: the diagnostic is logged when the last
\* square is not the poison square.
PoisonNotLeftLogged(b) ==
    CheckLost(b) /\ ~(b.poison_row = 0 /\ b.poison_column = 0)

\* Mutant: the poison on the split column is taken for "left of it".
SplitVerticalStrict(b, column) ==
    IF b.poison_column > column
    THEN [b EXCEPT !.poison_column = (b.poison_column - column) % BarWidth,
                   !.columns = (b.columns - column) % BarWidth]
    ELSE [b EXCEPT !.columns = column]

SplitVertical(b, column) ==
    IF b.poison_column >= column
    THEN [b EXCEPT !.poison_column = (b.poison_column - column) % BarWidth,
                   !.columns = (b.columns - column) % BarWidth]
    ELSE [b EXCEPT !.columns = column]

\* Mutant: the poison is re-based but the rows above it are not removed.
SplitHorizontalKeepsRows(b, row) ==
    IF b.poison_row >= row
    THEN [b EXCEPT !.poison_row = (b.poison_row - row) % BarWidth]
    ELSE [b EXCEPT !.rows = row]

SplitHorizontal(b, row) ==
    IF b.poison_row >= row
    THEN [b EXCEPT !.poison_row = (b.poison_row - row) % BarWidth,
                   !.rows = (b.rows - row) % BarWidth]
    ELSE [b EXCEPT !.rows = row]

\* Mutant: both loops start at 0.
GetValidMovesFromZero(b) ==
    [i \in 1..b.rows |-> Move("HORIZONTAL", i - 1)]
    \o [j \in 1..b.columns |-> Move("VERTICAL", j - 1)]

GetValidMoves(b) ==
    [i \in 1..(b.rows - 1) |-> Move("HORIZONTAL", i)]
    \o [j \in 1..(b.columns - 1) |-> Move("VERTICAL", j)]

\* Mutant: the split is not applied.
MakeMoveKeepsBar(b, move) == b

MakeMove(b, move) ==
    IF move.dir = "VERTICAL"
    THEN SplitVertical(b, move.location)
    ELSE SplitHorizontal(b, move.location)

CheckValidMove(b, move) ==
    IF move.location < 1 THEN FALSE
    ELSE IF move.dir = "VERTICAL"
         THEN ~(move.location >= b.columns)
         ELSE ~(move.location >= b.rows)

\* ---------------------------------------------------------------- hash_t
\* One 16-bit lane OR-ed with a 16-bit value (hash |= x << 16*k acts on
\* lane k alone, since x is a bar_t).
RECURSIVE BitOr(_, _)
BitOr(a, b) ==
    IF a = 0 THEN b
    ELSE IF b = 0 THEN a
    ELSE (IF (a % 2) = 1 \/ (b % 2) = 1 THEN 1 ELSE 0)
         + (2 * BitOr(a \div 2, b \div 2))

\* Mutant: every field is OR-ed into lane 0 (the shift is dropped).
OrShiftedLaneZero(hash, x, lane) == [hash EXCEPT ![1] = BitOr(@, x)]

OrShifted(hash, x, lane) == [hash EXCEPT ![lane + 1] = BitOr(@, x)]

PositionHash(b) ==
    LET h0 == <<0, 0, 0, 0>>
        h1 == OrShifted(h0, b.rows, 0)
        h2 == OrShifted(h1, b.columns, 1)
        h3 == OrShifted(h2, b.poison_row, 2)
        h4 == OrShifted(h3, b.poison_column, 3)
    IN  h4

\* ---------------------------------------------------- TranspositionTable
\* 0xffffffff: the two low lanes all ones, the two high lanes zero.
INVALID_HASH == <<BarWidth - 1, BarWidth - 1, 0, 0>>

Entry == [position_hash |-> INVALID_HASH, score |-> 0]

isInvalid(entry) == entry.position_hash = INVALID_HASH

\* The constructor: table_size slots, all empty, current_size 0.
TranspositionTable(table_size) ==
    [table_size |-> table_size,
     current_size |-> 0,
     data |-> [i \in 0..(table_size - 1) |-> Entry]]

\* position_hash % table_size, computed lane by lane (table_size < 2^15
\* keeps every product within the integers of TLC).
GetIndex(t, position_hash) ==
    LET n == t.table_size
        p16 == BarWidth % n
        p32 == (p16 * p16) % n
        p48 == (p32 * p16) % n
    IN  ( (position_hash[1] % n)
        + (((position_hash[2] % n) * p16) % n)
        + (((position_hash[3] % n) * p32) % n)
        + (((position_hash[4] % n) * p48) % n) ) % n

\* Mutant: the scores are zeroed but the fingerprints stay in the slots.
ResetKeepsHashes(t) ==
    [t EXCEPT !.data = [i \in 0..(t.table_size - 1) |->
                           [position_hash |-> t.data[i].position_hash,
                            score |-> 0]]]

Reset(t) == [t EXCEPT !.data = [i \in 0..(t.table_size - 1) |-> Entry]]

\* The probe loop of AddEntry, started at the home slot: the loop leaves
\* at the first k (slots passed) with k = MAX_ATTEMPTS or an empty slot at
\* home + k.  The slot it stops at, with the number of attempts made.
AddProbe(t, home) ==
    LET Leaves(k) == ~((~isInvalid(t.data[(home + k) % t.table_size]))
                       /\ k < MAX_ATTEMPTS)
        attempts == CHOOSE k \in 0..MAX_ATTEMPTS :
                        Leaves(k) /\ \A j \in 0..(k - 1) : ~Leaves(j)
    IN  [index |-> (home + attempts) % t.table_size, attempts |-> attempts]

\* The slot of the entry AddEntry returns a reference to: data[0] when the
\* call is refused, the slot written otherwise.
AddEntrySlot(t, position_hash) ==
    IF t.current_size = t.table_size
    THEN 0
    ELSE AddProbe(t, GetIndex(t, position_hash)).index

\* Mutant: current_size is not incremented.
AddEntryUncounted(t, position_hash, score) ==
    IF t.current_size = t.table_size
    THEN t
    ELSE [t EXCEPT !.data[AddProbe(t, GetIndex(t, position_hash)).index] =
                      [position_hash |-> position_hash, score |-> score]]

\* Mutant: the call is not refused on a full table.
AddEntryUnguarded(t, position_hash, score) ==
    [t EXCEPT !.data[AddProbe(t, GetIndex(t, position_hash)).index] =
                 [position_hash |-> position_hash, score |-> score],
              !.current_size = @ + 1]

\* The table after AddEntry.
AddEntry(t, position_hash, score) ==
    IF t.current_size = t.table_size
    THEN t
    ELSE [t EXCEPT !.data[AddProbe(t, GetIndex(t, position_hash)).index] =
                      [position_hash |-> position_hash, score |-> score],
                   !.current_size = @ + 1]

\* The probe loop of Lookup, started at the home slot: the loop leaves at
\* the first slot home + k that holds position_hash (the entry is
\* returned) or is empty (Entry() is returned).  The table does not change
\* during the loop, so when no slot of the table lets it leave, the loop
\* never ends (ends = FALSE).
LookupProbe(t, position_hash, home) ==
    LET At(k) == t.data[(home + k) % t.table_size]
        Leaves(k) == ~(At(k).position_hash # position_hash)
                     \/ At(k).position_hash = INVALID_HASH
        Ks == 0..(t.table_size - 1)
    IN  IF \E k \in Ks : Leaves(k)
        THEN LET n == CHOOSE k \in Ks :
                         Leaves(k) /\ \A j \in 0..(k - 1) : ~Leaves(j)
             IN  [ends |-> TRUE,
                  entry |-> IF At(n).position_hash # position_hash
                            THEN Entry ELSE At(n),
                  probes |-> n + 1]
        ELSE [ends |-> FALSE, entry |-> Entry, probes |-> t.table_size]

\* Mutant: the home slot is taken for the entry without comparing hashes.
LookupRunHomeOnly(t, position_hash) ==
    IF t.current_size = t.table_size
    THEN [ends |-> TRUE, entry |-> Entry, probes |-> 0]
    ELSE [ends |-> TRUE, entry |-> t.data[GetIndex(t, position_hash)],
          probes |-> 1]

LookupRun(t, position_hash) ==
    IF t.current_size = t.table_size
    THEN [ends |-> TRUE, entry |-> Entry, probes |-> 0]
    ELSE LookupProbe(t, position_hash, GetIndex(t, position_hash))

Lookup(t, position_hash) == LookupRun(t, position_hash).entry

\* -------------------------------------------------------------- Evaluate
Min2(a, b) == IF b < a THEN b ELSE a

\* Evaluate returns the score; the table it leaves behind is returned with
\* it.  EvaluateLoop is the loop over moves[i..].
RECURSIVE Evaluate(_, _), EvaluateLoop(_, _, _, _, _)
\* Mutant: a cached score is negated again when it is read back.
EvaluateLoopNegatesHit(b, moves, i, max_score, t) ==
    IF i > Len(moves)
    THEN [score |-> max_score, table |-> t]
    ELSE LET test_bar == MakeMove(b, moves[i])
             position_hash == PositionHash(test_bar)
             entry == Lookup(t, position_hash)
         IN  IF ~isInvalid(entry)
             THEN EvaluateLoop(b, moves, i + 1, Min2(max_score, -entry.score), t)
             ELSE LET sub == Evaluate(test_bar, t)
                      position_score == -sub.score
                      t2 == AddEntry(sub.table, position_hash, position_score)
                  IN  EvaluateLoop(b, moves, i + 1,
                                   Min2(max_score, position_score), t2)

\* Mutant: a score found in the table is stored again.
EvaluateLoopStoresHit(b, moves, i, max_score, t) ==
    IF i > Len(moves)
    THEN [score |-> max_score, table |-> t]
    ELSE LET test_bar == MakeMove(b, moves[i])
             position_hash == PositionHash(test_bar)
             entry == Lookup(t, position_hash)
         IN  IF ~isInvalid(entry)
             THEN EvaluateLoop(b, moves, i + 1, Min2(max_score, entry.score),
                               AddEntry(t, position_hash, entry.score))
             ELSE LET sub == Evaluate(test_bar, t)
                      position_score == -sub.score
                      t2 == AddEntry(sub.table, position_hash, position_score)
                  IN  EvaluateLoop(b, moves, i + 1,
                                   Min2(max_score, position_score), t2)

\* Mutant: the running minimum is stored in place of the position's score.
EvaluateLoopStoresMin(b, moves, i, max_score, t) ==
    IF i > Len(moves)
    THEN [score |-> max_score, table |-> t]
    ELSE LET test_bar == MakeMove(b, moves[i])
             position_hash == PositionHash(test_bar)
             entry == Lookup(t, position_hash)
         IN  IF ~isInvalid(entry)
             THEN EvaluateLoop(b, moves, i + 1, Min2(max_score, entry.score), t)
             ELSE LET sub == Evaluate(test_bar, t)
                      position_score == -sub.score
                      t2 == AddEntry(sub.table, position_hash,
                                     Min2(max_score, position_score))
                  IN  EvaluateLoop(b, moves, i + 1,
                                   Min2(max_score, position_score), t2)

EvaluateLoop(b, moves, i, max_score, t) ==
    IF i > Len(moves)
    THEN [score |-> max_score, table |-> t]
    ELSE LET test_bar == MakeMove(b, moves[i])
             position_hash == PositionHash(test_bar)
             entry == Lookup(t, position_hash)
         IN  IF ~isInvalid(entry)
             THEN EvaluateLoop(b, moves, i + 1, Min2(max_score, entry.score), t)
             ELSE LET sub == Evaluate(test_bar, t)
                      position_score == -sub.score
                      t2 == AddEntry(sub.table, position_hash, position_score)
                  IN  EvaluateLoop(b, moves, i + 1,
                                   Min2(max_score, position_score), t2)

\* Mutant: a bar without moves scores -1.
EvaluateTerminalLost(b, t) ==
    LET moves == GetValidMoves(b)
    IN  IF moves = <<>>
        THEN [score |-> -1, table |-> t]
        ELSE EvaluateLoop(b, moves, 1, FLT_MAX, t)

Evaluate(b, t) ==
    LET moves == GetValidMoves(b)
    IN  IF moves = <<>>
        THEN [score |-> 1, table |-> t]
        ELSE EvaluateLoop(b, moves, 1, FLT_MAX, t)

\* ------------------------------------------------------------- GetAIMove
\* best_move is an index into possible_moves, 0 for nullptr.  move_score
\* is the value written through the move_score pointer when one is given.
\* GetAIMoveLoop is the loop over possible_moves[i..]; GetAIMoveBody is
\* its body once Evaluate has returned ev (the score and the table).
RECURSIVE GetAIMoveLoop(_, _, _, _, _, _, _), GetAIMoveBody(_, _, _, _, _, _, _)
\* Mutant: score >= best_move_score, so a tie moves on to the later move.
GetAIMoveBodyLastTie(b, possible_moves, i, best_move_score, best_move, move_score, ev) ==
    LET score == ev.score
        better == score >= best_move_score
        best2 == IF better THEN score ELSE best_move_score
        move2 == IF better THEN i ELSE best_move
        ms2 == IF better THEN score ELSE move_score
    IN  IF score = 1
        THEN [best_move |-> move2, move_score |-> ms2, table |-> ev.table]
        ELSE GetAIMoveLoop(b, possible_moves, i + 1, best2, move2, ms2,
                           ev.table)

GetAIMoveBody(b, possible_moves, i, best_move_score, best_move, move_score, ev) ==
    LET score == ev.score
        better == score > best_move_score
        best2 == IF better THEN score ELSE best_move_score
        move2 == IF better THEN i ELSE best_move
        ms2 == IF better THEN score ELSE move_score
    IN  IF score = 1
        THEN [best_move |-> move2, move_score |-> ms2, table |-> ev.table]
        ELSE GetAIMoveLoop(b, possible_moves, i + 1, best2, move2, ms2,
                           ev.table)

\* Mutant: the candidate's value is the negation of Evaluate's score.
NegateScore(ev) == [ev EXCEPT !.score = -ev.score]

GetAIMoveLoopNegated(b, possible_moves, i, best_move_score, best_move, move_score, t) ==
    IF i > Len(possible_moves)
    THEN [best_move |-> best_move, move_score |-> move_score, table |-> t]
    ELSE GetAIMoveBody(b, possible_moves, i, best_move_score, best_move,
                       move_score,
                       NegateScore(Evaluate(MakeMove(b, possible_moves[i]), t)))

GetAIMoveLoop(b, possible_moves, i, best_move_score, best_move, move_score, t) ==
    IF i > Len(possible_moves)
    THEN [best_move |-> best_move, move_score |-> move_score, table |-> t]
    ELSE GetAIMoveBody(b, possible_moves, i, best_move_score, best_move,
                       move_score, Evaluate(MakeMove(b, possible_moves[i]), t))

\* Mutant: with no move found, the first slot of possible_moves is read.
GetAIMoveReturnNoFallback(possible_moves, r) ==
    [move |-> IF possible_moves = <<>> THEN Move("HORIZONTAL", 1)
              ELSE possible_moves[IF r.best_move = 0 THEN 1 ELSE r.best_move],
     found |-> TRUE, move_score |-> r.move_score, table |-> r.table]

\* The end of GetAIMove: the fallback move when best_move is nullptr.
GetAIMoveReturn(possible_moves, r) ==
    IF r.best_move = 0
    THEN [move |-> Move("VERTICAL", 0), found |-> FALSE,
          move_score |-> r.move_score, table |-> r.table]
    ELSE [move |-> possible_moves[r.best_move], found |-> TRUE,
          move_score |-> r.move_score, table |-> r.table]

\* Mutant: *move_score is not preset to -1 and keeps the caller's 0.
GetAIMoveNoPreset(b, t) ==
    GetAIMoveReturn(GetValidMoves(b),
                    GetAIMoveLoop(b, GetValidMoves(b), 1, -FLT_MAX, 0, 0, t))

GetAIMove(b, t) ==
    GetAIMoveReturn(GetValidMoves(b),
                    GetAIMoveLoop(b, GetValidMoves(b), 1, -FLT_MAX, 0, -1, t))

\* -------------------------------------------------------- GetAIMoveOrder
\* The comparison of the two scores at the end of GetAIMoveOrder.
\* Mutant: the two orders are swapped.
CompareScoresSwapped(first_score) ==
    LET second_score == first_score * (-1)
    IN  IF first_score > second_score
        THEN [order |-> "AI_MOVE_SECOND", branch |-> "first",
              first_score |-> first_score, second_score |-> second_score]
        ELSE IF second_score > first_score
        THEN [order |-> "AI_MOVE_FIRST", branch |-> "second",
              first_score |-> first_score, second_score |-> second_score]
        ELSE [order |-> "AI_MOVE_FIRST", branch |-> "no_difference",
              first_score |-> first_score, second_score |-> second_score]

CompareScores(first_score) ==
    LET second_score == first_score * (-1)
    IN  IF first_score > second_score
        THEN [order |-> "AI_MOVE_FIRST", branch |-> "first",
              first_score |-> first_score, second_score |-> second_score]
        ELSE IF second_score > first_score
        THEN [order |-> "AI_MOVE_SECOND", branch |-> "second",
              first_score |-> first_score, second_score |-> second_score]
        ELSE [order |-> "AI_MOVE_FIRST", branch |-> "no_difference",
              first_score |-> first_score, second_score |-> second_score]

\* The search runs on first_table, a fresh table of the caller's size; the
\* caller's table is not touched.
GetAIMoveOrder(b, t) ==
    CompareScores(GetAIMove(b, TranspositionTable(t.table_size)).move_score)

\* ------------------------------------------------------- inputs (boards)
\* Boards a driver constructs: rows, columns >= 1 and the poison in bounds.
LegalBoards ==
    {ChocolateBar(c, r, pcol, prow) :
        <<c, r, pcol, prow>> \in
            {q \in (1..MaxColumns) \X (1..MaxRows)
                   \X (0..(MaxColumns - 1)) \X (0..(MaxRows - 1)) :
                q[3] < q[1] /\ q[4] < q[2]}}

\* Moves a player may type: any direction, any location (GetPlayerMove
\* keeps asking until CheckValidMove accepts the move).
TypedMoves ==
    {Move(d, l) : <<d, l>> \in Directions \X (0..(MaxRows + MaxColumns))}

NoMove == Move("VERTICAL", 0)

NoCall == [op |-> "none"]

IdleBoard == ChocolateBar(1, 1, 0, 0)

BoardIdle ==
    /\ bar = IdleBoard /\ prevBar = IdleBoard /\ startBar = IdleBoard
    /\ lastMove = NoMove /\ turns = 0
SearchIdle == result = NoCall /\ replay = NoCall
GameIdle == AIMovesFirst = FALSE /\ outcome = "none"
CacheIdle == ops = 0 /\ last = NoCall /\ prev = NoCall /\ inserted = {}

\* ------------------------------------------------- SpecBoard: board moves
InitBoard ==
    /\ bar \in LegalBoards
    /\ prevBar = bar /\ startBar = bar /\ lastMove = NoMove /\ turns = 0
    /\ table = TranspositionTable(1)
    /\ before = table
    /\ pc = "board"
    /\ SearchIdle /\ GameIdle /\ CacheIdle

\* One legal move applied to the bar (PlayerTurn / AITurn: bar.MakeMove).
MakeMoveStep ==
    \E m \in TypedMoves :
        /\ CheckValidMove(bar, m)
        /\ bar' = MakeMove(bar, m)
        /\ prevBar' = bar
        /\ lastMove' = m
        /\ turns' = turns + 1
        /\ UNCHANGED <<startBar, table, before, pc, searchVars, gameVars,
                       cacheVars>>

NextBoard == MakeMoveStep

SpecBoard == InitBoard /\ [][NextBoard]_vars

\* --------------------------------------- SpecSearch: one search per board
TableSizes == (1..MaxSmallTable) \cup {LargeTable}

InitSearch ==
    /\ bar \in LegalBoards
    /\ prevBar = bar /\ startBar = bar /\ lastMove = NoMove /\ turns = 0
    /\ table \in {TranspositionTable(n) : n \in TableSizes}
    /\ before = table
    /\ pc = "start"
    /\ SearchIdle /\ GameIdle /\ CacheIdle

\* Evaluate(bar, positions_searched, table) on the fresh table.
EvaluateStep ==
    /\ pc = "start"
    /\ \E r \in {Evaluate(bar, table)} :
           /\ result' = [op |-> "Evaluate", score |-> r.score]
           /\ table' = r.table
    /\ before' = table
    /\ pc' = "done"
    /\ UNCHANGED <<replay, boardVars, gameVars, cacheVars>>

\* GetAIMove(bar, table, &move_score) on the fresh table.
GetAIMoveStep ==
    /\ pc = "start"
    /\ \E r \in {GetAIMove(bar, table)} :
           /\ result' = [op |-> "GetAIMove", move |-> r.move,
                         found |-> r.found, move_score |-> r.move_score]
           /\ table' = r.table
    /\ before' = table
    /\ pc' = "done"
    /\ UNCHANGED <<replay, boardVars, gameVars, cacheVars>>

\* GetAIMoveOrder(bar, table): the caller's table is left alone.
GetAIMoveOrderStep ==
    /\ pc = "start"
    /\ \E r \in {GetAIMoveOrder(bar, table)} :
           result' = [op |-> "GetAIMoveOrder", order |-> r.order,
                      branch |-> r.branch, first_score |-> r.first_score,
                      second_score |-> r.second_score]
    /\ before' = table
    /\ pc' = "done"
    /\ UNCHANGED <<table, replay, boardVars, gameVars, cacheVars>>

NextSearch == EvaluateStep \/ GetAIMoveStep \/ GetAIMoveOrderStep

SpecSearch == InitSearch /\ [][NextSearch]_vars

\* ------------------------------------------ SpecGame: PlayAgainstAI
\* PlayAgainstAI with the board and the table size as inputs (the source
\* fixes ChocolateBar(5, 3, 2, 1) and 100000 slots).
InitGame ==
    /\ bar \in LegalBoards
    /\ prevBar = bar /\ startBar = bar /\ lastMove = NoMove /\ turns = 0
    /\ table \in {TranspositionTable(n) : n \in TableSizes}
    /\ before = table
    /\ pc = "order"
    /\ SearchIdle /\ GameIdle /\ CacheIdle

\* bool AIMovesFirst = GetAIMoveOrder(bar, table) == AI_MOVE_FIRST;
MoveOrderStep ==
    /\ pc = "order"
    /\ AIMovesFirst' = (GetAIMoveOrder(bar, table).order = "AI_MOVE_FIRST")
    /\ pc' = "loop"
    /\ UNCHANGED <<table, before, boardVars, searchVars, outcome, cacheVars>>

\* while (!bar.CheckLost()) { if (AIMovesFirst) ... else ... }
LoopStep ==
    /\ pc = "loop"
    /\ pc' = IF CheckLost(bar) THEN "done"
             ELSE IF AIMovesFirst THEN "ai_then_player"
             ELSE "player_then_ai"
    /\ UNCHANGED <<table, before, boardVars, searchVars, gameVars, cacheVars>>

\* AITurn: the first or the second turn of a round.
AITurnStep ==
    /\ pc \in {"ai_then_player", "ai_last"}
    /\ \E r \in {GetAIMove(bar, table)} :
           /\ bar' = MakeMove(bar, r.move)
           /\ prevBar' = bar
           /\ lastMove' = r.move
           /\ table' = r.table
    /\ before' = table
    /\ turns' = turns + 1
    /\ IF CheckLost(bar')
       THEN outcome' = "Player lost!" /\ pc' = "done"
       ELSE outcome' = outcome
            /\ pc' = IF pc = "ai_then_player" THEN "player_last" ELSE "loop"
    /\ UNCHANGED <<startBar, searchVars, AIMovesFirst, cacheVars>>

\* PlayerTurn: GetPlayerMove returns a move CheckValidMove accepts.
PlayerTurnStep ==
    /\ pc \in {"player_then_ai", "player_last"}
    /\ \E m \in TypedMoves :
        /\ CheckValidMove(bar, m)
        /\ bar' = MakeMove(bar, m)
        /\ prevBar' = bar
        /\ lastMove' = m
    /\ turns' = turns + 1
    /\ IF CheckLost(bar')
       THEN outcome' = "AI lost!" /\ pc' = "done"
       ELSE outcome' = outcome
            /\ pc' = IF pc = "player_then_ai" THEN "ai_last" ELSE "loop"
    /\ UNCHANGED <<startBar, table, before, searchVars, AIMovesFirst,
                   cacheVars>>

NextGame == MoveOrderStep \/ LoopStep \/ AITurnStep \/ PlayerTurnStep

SpecGame == InitGame /\ [][NextGame]_vars

\* ------------------------------------- SpecCache: calls on one table
\* Fingerprints the driver passes: those of two bars that share the home
\* slot in a table of 3 slots, and the reserved value itself.
CacheHashes ==
    {PositionHash(ChocolateBar(1, 1, 0, 0)),
     PositionHash(ChocolateBar(3, 2, 0, 0)),
     INVALID_HASH}

CacheScores == {-1, 1}

\* A table of MAX_ATTEMPTS + 4 slots after MAX_ATTEMPTS + 1 AddEntry calls
\* with the fingerprints of the one-column bars of 2..101 and of 105 rows
\* (score -1).  Each of them is stored in its home slot (rows + 16) % 104:
\* they fill the slots 17..103 and 0..13, the run of MAX_ATTEMPTS + 1
\* slots that starts at the home slot (17) of the 1x1 bar, and leave the
\* slots 14..16 empty.
PrefillSize == MAX_ATTEMPTS + 4

PrefillHome == GetIndex(TranspositionTable(PrefillSize),
                        PositionHash(ChocolateBar(1, 1, 0, 0)))

PrefillRows(i) ==
    IF i = PrefillHome THEN PrefillSize + 1
    ELSE IF i > PrefillHome THEN i - (PrefillHome - 1)
    ELSE i + PrefillSize - (PrefillHome - 1)

PrefilledTable ==
    [table_size |-> PrefillSize,
     current_size |-> MAX_ATTEMPTS + 1,
     data |-> [i \in 0..(PrefillSize - 1) |->
                  IF (i - PrefillHome) % PrefillSize <= MAX_ATTEMPTS
                  THEN [position_hash |->
                            PositionHash(ChocolateBar(1, PrefillRows(i), 0, 0)),
                        score |-> -1]
                  ELSE Entry]]

Stored(t) ==
    {<<t.data[i].position_hash, t.data[i].score>> :
        i \in {j \in DOMAIN t.data : ~isInvalid(t.data[j])}}

Holds(t, position_hash) ==
    \E i \in DOMAIN t.data : t.data[i].position_hash = position_hash

Saturated(t) == t.current_size = t.table_size

InitCache ==
    /\ table \in {TranspositionTable(n) : n \in 1..MaxCacheSize}
                    \cup {PrefilledTable}
    /\ inserted = Stored(table)
    /\ before = table
    /\ ops = 0 /\ last = NoCall /\ prev = NoCall
    /\ pc = "cache"
    /\ BoardIdle /\ SearchIdle /\ GameIdle

\* table.AddEntry(position_hash, score)
AddEntryStep ==
    \E f \in CacheHashes, sc \in CacheScores :
        /\ ops < MaxOps
        /\ table' = AddEntry(table, f, sc)
        /\ before' = table
        /\ last' = [op |-> "AddEntry", position_hash |-> f, score |-> sc,
                    ret |-> table'.data[AddEntrySlot(table, f)],
                    saturated |-> Saturated(table),
                    held |-> Holds(table, f)]
        /\ prev' = last
        /\ inserted' = IF Saturated(table) THEN inserted
                       ELSE inserted \cup {<<f, sc>>}
        /\ ops' = ops + 1
        /\ UNCHANGED <<pc, boardVars, searchVars, gameVars>>

\* table.Lookup(position_hash)
LookupStep ==
    \E f \in CacheHashes :
        /\ ops < MaxOps
        /\ last' = [op |-> "Lookup", position_hash |-> f, score |-> 0,
                    ret |-> Lookup(table, f), saturated |-> Saturated(table),
                    held |-> Holds(table, f)]
        /\ prev' = last
        /\ before' = table
        /\ ops' = ops + 1
        /\ UNCHANGED <<table, inserted, pc, boardVars, searchVars, gameVars>>

\* table.Reset()
ResetStep ==
    /\ ops < MaxOps
    /\ table' = Reset(table)
    /\ before' = table
    /\ last' = [op |-> "Reset", position_hash |-> INVALID_HASH, score |-> 0,
                ret |-> Entry, saturated |-> Saturated(table),
                held |-> FALSE]
    /\ prev' = last
    /\ inserted' = {}
    /\ ops' = ops + 1
    /\ UNCHANGED <<pc, boardVars, searchVars, gameVars>>

NextCache == AddEntryStep \/ LookupStep \/ ResetStep

SpecCache == InitCache /\ [][NextCache]_vars

\* ------------------ SpecReuse: a search on a used table, Reset, replay
\* The one-column bar of r rows with the poison in the last row.
LastRowBar(r) == ChocolateBar(1, r, 0, r - 1)

\* The table GetAIMove leaves when it is called with a fresh table of
\* PrefillSize slots on LastRowBar(n), 2 < n <= PrefillSize + 1: Evaluate
\* of the first candidate stores the bars LastRowBar(1..n-2), the deepest
\* first, each in its home slot (the homes are distinct), with -1 for
\* the 1x1 bar and 1 for the others; the later candidates find them all.
LeftBy(n) ==
    LET fresh == TranspositionTable(PrefillSize)
        home == [r \in 1..(n - 2) |->
                    GetIndex(fresh, PositionHash(LastRowBar(r)))]
    IN  [table_size |-> PrefillSize,
         current_size |-> n - 2,
         data |-> [i \in 0..(PrefillSize - 1) |->
                      IF \E r \in 1..(n - 2) : home[r] = i
                      THEN [position_hash |->
                                PositionHash(LastRowBar(
                                    CHOOSE r \in 1..(n - 2) : home[r] = i)),
                            score |-> IF home[1] = i THEN -1 ELSE 1]
                      ELSE Entry]]

\* Bars an earlier AI turn was taken on.
EarlierBoards ==
    {ChocolateBar(MaxColumns, MaxRows, 1, 1), ChocolateBar(2, MaxRows, 0, 1)}

\* Tables a search starts on: fresh ones; those an earlier GetAIMove on
\* another bar has left (in the small table it has left it full); and
\* two tables of PrefillSize slots with one and with four empty slots.
ReuseTables ==
    {TranspositionTable(n) : n \in TableSizes}
    \cup {GetAIMove(b, TranspositionTable(n)).table :
            b \in EarlierBoards, n \in {MaxSmallTable, LargeTable}}
    \cup {LeftBy(PrefillSize + 1), LeftBy(PrefillSize - 2)}

InitReuse ==
    /\ bar \in LegalBoards
    /\ prevBar = bar /\ startBar = bar /\ lastMove = NoMove /\ turns = 0
    /\ table \in ReuseTables
    /\ before = table
    /\ pc = "start"
    /\ SearchIdle /\ GameIdle /\ CacheIdle

\* table.Reset() after the search.
ResetAfterSearchStep ==
    /\ pc = "done"
    /\ table' = Reset(table)
    /\ pc' = "reset"
    /\ UNCHANGED <<before, boardVars, searchVars, gameVars, cacheVars>>

\* The same call again, on the table Reset has left.
ReplayEvaluateStep ==
    /\ pc = "reset"
    /\ result.op = "Evaluate"
    /\ \E r \in {Evaluate(bar, table)} :
           /\ replay' = [op |-> "Evaluate", score |-> r.score]
           /\ table' = r.table
    /\ before' = table
    /\ pc' = "replayed"
    /\ UNCHANGED <<result, boardVars, gameVars, cacheVars>>

ReplayGetAIMoveStep ==
    /\ pc = "reset"
    /\ result.op = "GetAIMove"
    /\ \E r \in {GetAIMove(bar, table)} :
           /\ replay' = [op |-> "GetAIMove", move |-> r.move,
                         found |-> r.found, move_score |-> r.move_score]
           /\ table' = r.table
    /\ before' = table
    /\ pc' = "replayed"
    /\ UNCHANGED <<result, boardVars, gameVars, cacheVars>>

ReplayGetAIMoveOrderStep ==
    /\ pc = "reset"
    /\ result.op = "GetAIMoveOrder"
    /\ \E r \in {GetAIMoveOrder(bar, table)} :
           replay' = [op |-> "GetAIMoveOrder", order |-> r.order,
                      branch |-> r.branch, first_score |-> r.first_score,
                      second_score |-> r.second_score]
    /\ before' = table
    /\ pc' = "replayed"
    /\ UNCHANGED <<table, result, boardVars, gameVars, cacheVars>>

NextReuse ==
    \/ EvaluateStep \/ GetAIMoveStep \/ GetAIMoveOrderStep
    \/ ResetAfterSearchStep
    \/ ReplayEvaluateStep \/ ReplayGetAIMoveStep \/ ReplayGetAIMoveOrderStep

SpecReuse == InitReuse /\ [][NextReuse]_vars

\* --------------------------------------- SpecHash: PositionHash of bars
\* Bars at both ends of bar_t: extents 1, 2 and 0xffff, the poison at 0,
\* 1 and 0xfffe, inside the bar.
HashExtents == {1, 2, BarWidth - 1}

HashPoisons == {0, 1, BarWidth - 2}

HashBoards ==
    {ChocolateBar(c, r, pcol, prow) :
        <<c, r, pcol, prow>> \in
            {q \in HashExtents \X HashExtents \X HashPoisons \X HashPoisons :
                q[3] < q[1] /\ q[4] < q[2]}}

\* Two bars: bar and prevBar.
InitHash ==
    /\ bar \in HashBoards
    /\ prevBar \in HashBoards
    /\ startBar = bar /\ lastMove = NoMove /\ turns = 0
    /\ table = TranspositionTable(1)
    /\ before = table
    /\ pc = "hash"
    /\ SearchIdle /\ GameIdle /\ CacheIdle

\* test_bar.PositionHash() for both bars, and isInvalid() of an entry
\* that stores the first.
PositionHashStep ==
    /\ pc = "hash"
    /\ result' = [op |-> "PositionHash",
                  hash |-> PositionHash(bar),
                  other |-> PositionHash(prevBar),
                  invalid |-> isInvalid([position_hash |-> PositionHash(bar),
                                         score |-> 1])]
    /\ pc' = "hashed"
    /\ UNCHANGED <<table, before, replay, boardVars, gameVars, cacheVars>>

NextHash == PositionHashStep

SpecHash == InitHash /\ [][NextHash]_vars

\* ---------------------------------------------------------------- claims
Range(seq) == {seq[k] : k \in DOMAIN seq}

SetMax(S) == CHOOSE x \in S : \A y \in S : y <= x

Cells(b) == b.rows * b.columns

\* The value of a position without any table: +1 when there is no move,
\* otherwise the least of the negated values of the positions one move on.
RECURSIVE NegamaxValue(_)
NegamaxValue(b) ==
    IF GetValidMoves(b) = <<>>
    THEN 1
    ELSE -SetMax({NegamaxValue(MakeMove(b, m)) : m \in Range(GetValidMoves(b))})

\* The value the selector gives a candidate move: Evaluate of the position
\* after the move, on a fresh table of the size in use.
ChildValue(b, m) ==
    Evaluate(MakeMove(b, m), TranspositionTable(table.table_size)).score

\* GetAIMove's loop without the early exit at score 1: every move scanned.
RECURSIVE FullScanLoop(_, _, _, _, _, _, _)
FullScanLoop(b, possible_moves, i, best_move_score, best_move, move_score, t) ==
    IF i > Len(possible_moves)
    THEN [best_move |-> best_move, move_score |-> move_score]
    ELSE LET ev == Evaluate(MakeMove(b, possible_moves[i]), t)
             better == ev.score > best_move_score
         IN  FullScanLoop(b, possible_moves, i + 1,
                          IF better THEN ev.score ELSE best_move_score,
                          IF better THEN i ELSE best_move,
                          IF better THEN ev.score ELSE move_score,
                          ev.table)

FullScan(b) ==
    FullScanLoop(b, GetValidMoves(b), 1, -FLT_MAX, 0, -1,
                 TranspositionTable(table.table_size))

\* C1: on a fresh table, Evaluate returns +1 for a bar without moves and
\* otherwise minus the greatest table-free value of the bars one move on;
\* for the 1x2 bar with the poison at (0,0) that is -1.
C1_EvaluateIsNegamax ==
    result.op = "Evaluate" =>
        /\ result.score =
             (IF GetValidMoves(bar) = <<>>
              THEN 1
              ELSE -SetMax({NegamaxValue(MakeMove(bar, m)) :
                               m \in Range(GetValidMoves(bar))}))
        /\ (bar = ChocolateBar(2, 1, 0, 0) => result.score = -1)

\* C1 witness: Evaluate has run on a bar with several moves and has
\* stored entries in the table.
C1_Witness ==
    /\ result.op = "Evaluate"
    /\ Len(GetValidMoves(bar)) >= 3
    /\ table.current_size >= 3
    /\ result.score = 1

\* C2: the game never prints "AI lost!"; a game that started on a bar
\* with a move left and has ended has printed "Player lost!"; and the
\* game does end: whoever is to move has a move, and every move leaves
\* fewer cells.
C2_PlayerAlwaysLoses ==
    /\ outcome # "AI lost!"
    /\ (pc = "done" /\ ~CheckLost(startBar)) => outcome = "Player lost!"
    /\ (pc \in {"ai_then_player", "ai_last", "player_then_ai", "player_last"})
           => GetValidMoves(bar) # <<>>
    /\ lastMove # NoMove => Cells(bar) < Cells(prevBar)

\* C2 witness: a game the AI entered as second mover has ended with
\* "Player lost!" after the player's and the AI's moves.
C2_Witness ==
    /\ pc = "done"
    /\ outcome = "Player lost!"
    /\ ~AIMovesFirst
    /\ Cells(startBar) >= 6

\* C3: GetAIMoveOrder has secondScore = -firstScore, answers
\* AI_MOVE_FIRST exactly when firstScore > 0 and AI_MOVE_SECOND exactly
\* when firstScore < 0, and never takes the "no difference" branch.
C3_MoveOrder ==
    result.op = "GetAIMoveOrder" =>
        /\ result.second_score = -result.first_score
        /\ (result.order = "AI_MOVE_FIRST") <=> (result.first_score > 0)
        /\ (result.order = "AI_MOVE_SECOND") <=> (result.first_score < 0)
        /\ result.first_score # 0
        /\ result.branch # "no_difference"

\* C3 witness: the oracle has answered AI_MOVE_SECOND for a bar that has
\* moves.
C3_Witness ==
    /\ result.op = "GetAIMoveOrder"
    /\ result.order = "AI_MOVE_SECOND"
    /\ ~CheckLost(bar)

\* The values of all moves of b, in GetValidMoves order.
ChildValues(b) ==
    [k \in DOMAIN GetValidMoves(b) |-> ChildValue(b, GetValidMoves(b)[k])]

\* C4 as stated: the value of a candidate is the negation of Evaluate of
\* the bar after the move, and the reported move and score maximise it.
C4_NegatedChildValue ==
    (result.op = "GetAIMove" /\ result.found) =>
        \E vals \in {ChildValues(bar)} :
            /\ result.move_score = SetMax({-vals[k] : k \in DOMAIN vals})
            /\ \E k \in DOMAIN vals :
                   /\ GetValidMoves(bar)[k] = result.move
                   /\ -vals[k] = result.move_score

\* C4 amended: the value of a candidate is Evaluate of the bar after the
\* move, not negated, and the reported move and score maximise it.
C4_ChildValue ==
    (result.op = "GetAIMove" /\ result.found) =>
        \E vals \in {ChildValues(bar)} :
            /\ result.move_score = SetMax({vals[k] : k \in DOMAIN vals})
            /\ \E k \in DOMAIN vals :
                   /\ GetValidMoves(bar)[k] = result.move
                   /\ vals[k] = result.move_score

\* C4 witness: GetAIMove has chosen among moves of both values.
C4_Witness ==
    /\ result.op = "GetAIMove"
    /\ result.found
    /\ Range(ChildValues(bar)) = {-1, 1}

\* C5: on a bar with moves GetAIMove returns the earliest move, in
\* GetValidMoves order, of the greatest candidate value; CheckValidMove
\* accepts it; and the move and the score are those of a scan of every
\* move.
C5_EarliestBestMove ==
    (result.op = "GetAIMove" /\ GetValidMoves(bar) # <<>>) =>
        \E vals \in {ChildValues(bar)}, scan \in {FullScan(bar)} :
            \E first \in DOMAIN vals :
                /\ \A k \in DOMAIN vals : vals[k] <= vals[first]
                /\ \A j \in 1..(first - 1) : vals[j] < vals[first]
                /\ result.found
                /\ result.move = GetValidMoves(bar)[first]
                /\ CheckValidMove(bar, result.move)
                /\ scan.best_move = first
                /\ scan.move_score = result.move_score

\* C5 witness: GetAIMove has stopped early at a winning move that is
\* neither the first nor the last move.
C5_Witness ==
    /\ result.op = "GetAIMove"
    /\ result.found
    /\ result.move_score = 1
    /\ result.move # GetValidMoves(bar)[1]
    /\ result.move # GetValidMoves(bar)[Len(GetValidMoves(bar))]

\* C6: after any sequence of legal moves the bar has rows >= 1,
\* columns >= 1 and the poison inside it; so when CheckLost holds the
\* poison is at (0,0) and "Poison square was not left!" is not logged.
C6_BoardStaysLegal ==
    /\ bar.rows >= 1
    /\ bar.columns >= 1
    /\ 0 <= bar.poison_row /\ bar.poison_row < bar.rows
    /\ 0 <= bar.poison_column /\ bar.poison_column < bar.columns
    /\ (CheckLost(bar) => (bar.poison_row = 0 /\ bar.poison_column = 0))
    /\ ~PoisonNotLeftLogged(bar)

\* C6 witness: moves have taken a bar whose poison was off the corner
\* to the last square.
C6_Witness ==
    /\ lastMove # NoMove
    /\ CheckLost(bar)
    /\ prevBar.poison_column >= 1
    /\ prevBar.poison_column = lastMove.location

\* C7: a legal move leaves strictly fewer cells.
C7_CellsDecrease ==
    lastMove # NoMove => Cells(bar) < Cells(prevBar)

\* C7 witness: a horizontal split above the poison has been made.
C7_Witness ==
    /\ lastMove.dir = "HORIZONTAL"
    /\ lastMove.location >= 1
    /\ prevBar.poison_row >= lastMove.location
    /\ bar.rows >= 2

\* C8: GetValidMoves is the Horizontal moves 1..rows-1 in ascending order
\* followed by the Vertical moves 1..columns-1 in ascending order; these
\* are the moves CheckValidMove accepts; the list is empty exactly when
\* CheckLost holds.
C8_ValidMoves ==
    LET moves == GetValidMoves(bar)
        h == bar.rows - 1
        v == bar.columns - 1
    IN  /\ moves = [k \in 1..(h + v) |->
                       IF k <= h THEN Move("HORIZONTAL", k)
                       ELSE Move("VERTICAL", k - h)]
        /\ Range(moves) = {m \in TypedMoves : CheckValidMove(bar, m)}
        /\ (moves = <<>>) <=> CheckLost(bar)
        /\ CheckLost(bar) <=> (bar.rows <= 1 /\ bar.columns <= 1)

\* C8 witness: a bar reached by a move that has moves of both directions.
C8_Witness ==
    /\ lastMove # NoMove
    /\ bar.rows >= 3
    /\ bar.columns >= 2

\* C9 as stated: on a table that is not saturated (neither when AddEntry
\* is called nor when Lookup is), AddEntry(f, s) followed at once by
\* Lookup(f) returns an entry with score s, for every f but the reserved
\* value, whatever calls came before.
C9_RoundTrip ==
    ( /\ last.op = "Lookup"
      /\ prev.op = "AddEntry"
      /\ prev.position_hash = last.position_hash
      /\ last.position_hash # INVALID_HASH
      /\ ~prev.saturated
      /\ ~last.saturated )
    => (~isInvalid(last.ret) /\ last.ret.score = prev.score)

\* C10: Lookup(f) returns a non-empty entry only if f was stored since
\* the construction or the last Reset, and with the score returned; the
\* entry returned is one of f.
C10_NoFalsePositive ==
    (last.op = "Lookup" /\ ~isInvalid(last.ret)) =>
        /\ last.ret.position_hash = last.position_hash
        /\ <<last.position_hash, last.ret.score>> \in inserted

\* C10 witness: a hit, and a miss for a fingerprint that shares the home
\* slot with a stored one.
C10_Witness ==
    /\ last.op = "Lookup"
    /\ ~isInvalid(last.ret)
    /\ prev.op = "Lookup"
    /\ isInvalid(prev.ret)
    /\ prev.position_hash # INVALID_HASH
    /\ table.table_size = 3

\* C11 as stated: after Reset the table is as the constructor left it:
\* every slot empty and current_size zero.
C11_ResetIsFresh ==
    last.op = "Reset" =>
        /\ \A i \in DOMAIN table.data : isInvalid(table.data[i])
        /\ table.current_size = 0
        /\ table = TranspositionTable(table.table_size)

\* The number of occupied slots AddEntry passes before it stops.
Attempts(t, position_hash) ==
    AddProbe(t, GetIndex(t, position_hash)).attempts

\* C12 as stated: an AddEntry that passes MAX_ATTEMPTS occupied slots
\* without finding an empty one leaves the table as it found it: no slot
\* is changed, no entry is lost, current_size is not incremented.
C12_CapAbandons ==
    ( /\ last.op = "AddEntry"
      /\ ~last.saturated
      /\ Attempts(before, last.position_hash) >= MAX_ATTEMPTS )
    => /\ table.data = before.data
       /\ Stored(before) \subseteq Stored(table)
       /\ table.current_size = before.current_size

\* C13: current_size never exceeds table_size; when the two are equal
\* AddEntry changes neither a slot nor current_size, and Lookup returns
\* an empty entry for every fingerprint, stored ones included.
C13_Saturation ==
    /\ table.current_size <= table.table_size
    /\ (last.op = "AddEntry" /\ last.saturated) => table = before
    /\ (last.op = "Lookup" /\ last.saturated) => isInvalid(last.ret)

\* C13 witness: on a full table an AddEntry has been refused and the
\* Lookup of a fingerprint that is stored has then missed.
C13_Witness ==
    /\ last.op = "Lookup"
    /\ last.saturated
    /\ last.held
    /\ last.position_hash # INVALID_HASH
    /\ isInvalid(last.ret)
    /\ prev.op = "AddEntry"
    /\ prev.saturated

\* C14 as stated: no two slots hold the same fingerprint, the reserved
\* value apart.
C14_NoDuplicates ==
    \A i, j \in DOMAIN table.data :
        (i # j /\ ~isInvalid(table.data[i]))
            => table.data[i].position_hash # table.data[j].position_hash

\* C15 as stated: the PositionHash of a legal bar (rows, columns >= 1,
\* the poison inside, every field a bar_t) is never INVALID_HASH, and an
\* entry that stores it is never taken for an empty slot.
C15_SentinelNeverLegal ==
    result.op = "PositionHash" =>
        /\ result.hash # INVALID_HASH
        /\ ~result.invalid

\* C16: PositionHash has rows in lane 0, columns in lane 1, poison_row in
\* lane 2 and poison_column in lane 3 (rows | columns<<16 |
\* poison_row<<32 | poison_column<<48); two bars have the same
\* fingerprint exactly when their four fields are equal.
C16_HashPacking ==
    result.op = "PositionHash" =>
        /\ result.hash = <<bar.rows, bar.columns,
                           bar.poison_row, bar.poison_column>>
        /\ (result.hash = result.other) <=> (bar = prevBar)

\* C16 witness: two bars with rows and columns exchanged, one extent
\* 0xffff, have been hashed to different fingerprints; and a bar and its
\* copy to the same.
C16_Witness ==
    /\ result.op = "PositionHash"
    /\ bar.rows = BarWidth - 1
    /\ bar.columns = 2
    /\ prevBar.rows = bar.columns
    /\ prevBar.columns = bar.rows
    /\ prevBar.poison_row = bar.poison_column
    /\ prevBar.poison_column = bar.poison_row
    /\ result.hash # result.other

\* C17: a search, Reset, and the same search again on the same table
\* return the same scores and the same move or move order.
C17_ReplayAfterReset ==
    pc = "replayed" => replay = result

\* The number of occupied slots.
Occupied(t) == Cardinality({i \in DOMAIN t.data : ~isInvalid(t.data[i])})

\* C17 witness: GetAIMove has stored entries in the first run, and the
\* replay, which found the table empty but current_size as the first run
\* left it, has chosen the same winning move again.
C17_Witness ==
    /\ pc = "replayed"
    /\ replay.op = "GetAIMove"
    /\ replay.found
    /\ replay.move_score = 1
    /\ before.current_size >= 3
    /\ table.current_size > before.current_size
    /\ Occupied(table) < table.current_size

\* C18: GetAIMove on a bar without moves returns the fallback move
\* (Vertical, 0) after the "No AI move found" diagnostic, reports the
\* score -1 and leaves the table as it found it.
C18_NoMoveFallback ==
    (pc = "done" /\ result.op = "GetAIMove" /\ GetValidMoves(bar) = <<>>) =>
        /\ ~result.found
        /\ result.move = Move("VERTICAL", 0)
        /\ result.move_score = -1
        /\ table = before

\* C18 witness: GetAIMove has been called on the 1x1 bar with a table
\* that holds entries and has room for more.
C18_Witness ==
    /\ pc = "done"
    /\ result.op = "GetAIMove"
    /\ CheckLost(bar)
    /\ ~result.found
    /\ before.current_size >= 2
    /\ before.current_size < before.table_size

\* What GetAIMove returns when no table is consulted: the first move, in
\* GetValidMoves order, of the greatest table-free value, with that
\* value; the fallback move and -1 when there is no move.
CacheFreeMove(b) ==
    LET moves == GetValidMoves(b)
        vals == [k \in DOMAIN moves |-> NegamaxValue(MakeMove(b, moves[k]))]
    IN  IF moves = <<>>
        THEN [op |-> "GetAIMove", move |-> Move("VERTICAL", 0),
              found |-> FALSE, move_score |-> -1]
        ELSE LET best == CHOOSE k \in DOMAIN moves :
                             /\ \A j \in DOMAIN moves : vals[j] <= vals[k]
                             /\ \A j \in 1..(k - 1) : vals[j] < vals[k]
             IN  [op |-> "GetAIMove", move |-> moves[best],
                  found |-> TRUE, move_score |-> vals[best]]

\* C20: whatever table the search starts on (fresh, left by an earlier
\* search on another bar, full from the start or filled up during the
\* search, with a run long enough for AddEntry to reach MAX_ATTEMPTS,
\* cleared by Reset), Evaluate returns the table-free value of the bar
\* and GetAIMove the table-free move and score.  (Last conjunct: LeftBy
\* is the table GetAIMove leaves, at a size the search is run on.)
C20_CacheIndependent ==
    /\ result.op = "Evaluate" =>
           result = [op |-> "Evaluate", score |-> NegamaxValue(bar)]
    /\ result.op = "GetAIMove" => result = CacheFreeMove(bar)
    /\ replay.op = "Evaluate" =>
           replay = [op |-> "Evaluate", score |-> NegamaxValue(bar)]
    /\ replay.op = "GetAIMove" => replay = CacheFreeMove(bar)
    /\ (pc = "start" /\ CheckLost(bar)) =>
           LeftBy(MaxRows + 2) =
               GetAIMove(LastRowBar(MaxRows + 2),
                         TranspositionTable(PrefillSize)).table

\* C20 witness: GetAIMove has run on a table of PrefillSize slots that an
\* earlier search had left with four empty slots; during the search an
\* AddEntry has reached MAX_ATTEMPTS and overwritten an entry (one more
\* insert counted than slots gained) and the table has become full.
C20_Witness ==
    /\ pc = "done"
    /\ result.op = "GetAIMove"
    /\ result.found
    /\ before.table_size = PrefillSize
    /\ before.current_size = MAX_ATTEMPTS
    /\ Occupied(before) = before.current_size
    /\ table.current_size = table.table_size
    /\ Occupied(table) < table.current_size

\* The number of nested Evaluate calls a call on b reaches when no
\* candidate is found in the table, counted up to limit + 1.
RECURSIVE EvaluateDepth(_, _)
EvaluateDepth(b, limit) ==
    IF GetValidMoves(b) = <<>> \/ limit = 0
    THEN 1
    ELSE 1 + SetMax({EvaluateDepth(MakeMove(b, m), limit - 1) :
                        m \in Range(GetValidMoves(b))})

\* C19: no sequence of legal moves from a legal bar is longer than the
\* rows + columns of that bar, and neither is the chain of nested
\* Evaluate calls; a bar without a legal move is the terminal one, so
\* every play ends there.
C19_DepthBound ==
    /\ turns <= startBar.rows + startBar.columns
    /\ turns = 0 =>
           EvaluateDepth(bar, bar.rows + bar.columns + 1)
               <= bar.rows + bar.columns
    /\ GetValidMoves(bar) = <<>> => CheckLost(bar)

\* C19 witness: the longest play on a bar of at least 3 rows and 3
\* columns, one row or column at a time, has reached the last square.
C19_Witness ==
    /\ turns = startBar.rows + startBar.columns - 2
    /\ startBar.rows >= 3
    /\ startBar.columns >= 3
    /\ CheckLost(bar)

\* C21: the number of occupied slots is at most current_size, which is
\* at most table_size; so a table that is not full by current_size has
\* an empty slot, and Lookup ends for every fingerprint after at most
\* table_size probes.
C21_LookupTerminates ==
    /\ table.table_size >= 1
    /\ Occupied(table) <= table.current_size
    /\ table.current_size <= table.table_size
    /\ ~Saturated(table) => \E i \in DOMAIN table.data : isInvalid(table.data[i])
    /\ \A f \in CacheHashes :
           /\ LookupRun(table, f).ends
           /\ LookupRun(table, f).probes <= table.table_size
    /\ last.op = "Lookup" =>
           /\ LookupRun(before, last.position_hash).ends
           /\ LookupRun(before, last.position_hash).entry = last.ret

\* C21 witness: a Lookup on a table of 3 slots has passed two occupied
\* slots and stopped at the only empty one.
C21_Witness ==
    /\ last.op = "Lookup"
    /\ ~last.saturated
    /\ table.table_size = 3
    /\ Occupied(table) = 2
    /\ LookupRun(before, last.position_hash).probes = 3
    /\ isInvalid(last.ret)

\* Evaluate with its AddEntry calls counted: calls, those whose
\* fingerprint the table held when the call was made (held), and those of
\* them made on a table that was not full (stored_again).
RECURSIVE EvaluateCalls(_, _, _), EvaluateCallsLoop(_, _, _, _, _, _)
EvaluateCallsLoop(b, moves, i, max_score, t, n) ==
    IF i > Len(moves)
    THEN [score |-> max_score, table |-> t, n |-> n]
    ELSE LET test_bar == MakeMove(b, moves[i])
             position_hash == PositionHash(test_bar)
             entry == Lookup(t, position_hash)
         IN  IF ~isInvalid(entry)
             THEN EvaluateCallsLoop(b, moves, i + 1,
                                    Min2(max_score, entry.score), t, n)
             ELSE LET sub == EvaluateCalls(test_bar, t, n)
                      position_score == -sub.score
                      isHeld == Holds(sub.table, position_hash)
                      n2 == [calls |-> sub.n.calls + 1,
                             held |-> sub.n.held + (IF isHeld THEN 1 ELSE 0),
                             stored_again |->
                                 sub.n.stored_again
                                 + (IF isHeld /\ ~Saturated(sub.table)
                                    THEN 1 ELSE 0)]
                  IN  EvaluateCallsLoop(b, moves, i + 1,
                                        Min2(max_score, position_score),
                                        AddEntry(sub.table, position_hash,
                                                 position_score),
                                        n2)

EvaluateCalls(b, t, n) ==
    IF GetValidMoves(b) = <<>>
    THEN [score |-> 1, table |-> t, n |-> n]
    ELSE EvaluateCallsLoop(b, GetValidMoves(b), 1, FLT_MAX, t, n)

NoCalls == [calls |-> 0, held |-> 0, stored_again |-> 0]

\* No two slots of t hold the same fingerprint.
NoDuplicates(t) ==
    Cardinality({t.data[i].position_hash :
                    i \in {j \in DOMAIN t.data : ~isInvalid(t.data[j])}})
        = Occupied(t)

\* C22 as stated: Evaluate makes no AddEntry call with a fingerprint the
\* table holds when the call is made, and a table written by Evaluate
\* alone holds no fingerprint twice.
C22_NeverCallsWithHeld ==
    /\ NoDuplicates(table)
    /\ (pc \in {"done", "replayed"} /\ result.op = "Evaluate") =>
           \E run \in {EvaluateCalls(bar, before, NoCalls)} :
               /\ run.score = result.score
               /\ run.table = table
               /\ run.n.held = 0

\* C22 amended: Evaluate makes no AddEntry call that stores a fingerprint
\* the table holds (the calls it makes with such a fingerprint are made
\* on a full table, which refuses them), and a table written by Evaluate
\* alone holds no fingerprint twice.
C22_NeverStoresHeld ==
    /\ NoDuplicates(table)
    /\ (pc \in {"done", "replayed"} /\ result.op = "Evaluate") =>
           \E run \in {EvaluateCalls(bar, before, NoCalls)} :
               /\ run.score = result.score
               /\ run.table = table
               /\ run.n.stored_again = 0
               /\ run.n.held > 0 => Saturated(table)

\* C22 witness: Evaluate has stored entries, has found some of them
\* again, and has finished with room left in the table.
C22_Witness ==
    /\ pc = "done"
    /\ result.op = "Evaluate"
    /\ ~Saturated(table)
    /\ table.current_size >= before.current_size + 3
    /\ Occupied(table) >= 4
    /\ NoDuplicates(table)

\* Bitwise exclusive or of two naturals.
RECURSIVE BitXor(_, _)
BitXor(a, b) ==
    IF a = 0 THEN b
    ELSE IF b = 0 THEN a
    ELSE ((a + b) % 2) + (2 * BitXor(a \div 2, b \div 2))

\* The four heaps of a bar: the rows above and below the poison row,
\* the columns left and right of the poison column.
Heaps(b) ==
    <<b.poison_row, b.rows - 1 - b.poison_row,
      b.poison_column, b.columns - 1 - b.poison_column>>

NimSum(b) ==
    BitXor(BitXor(Heaps(b)[1], Heaps(b)[2]),
           BitXor(Heaps(b)[3], Heaps(b)[4]))

\* C23: a move lowers exactly one heap, to any smaller size (the game is
\* Nim on the four heaps), and GetAIMoveOrder answers AI_MOVE_FIRST
\* exactly when the nim-sum of the heaps is not zero, AI_MOVE_SECOND
\* otherwise, the 1x1 bar included.
C23_NimSum ==
    /\ result.op = "GetAIMoveOrder" =>
           /\ (result.order = "AI_MOVE_FIRST") <=> (NimSum(bar) # 0)
           /\ (result.order = "AI_MOVE_SECOND") <=> (NimSum(bar) = 0)
           /\ CheckLost(bar) => result.order = "AI_MOVE_SECOND"
    /\ {Heaps(MakeMove(bar, m)) : m \in Range(GetValidMoves(bar))}
           = {[Heaps(bar) EXCEPT ![k] = v] :
                 <<k, v>> \in {q \in (1..4) \X (0..(MaxRows + MaxColumns)) :
                                  q[2] < Heaps(bar)[q[1]]}}

\* C23 witness: AI_MOVE_SECOND has been answered for a bar with four
\* non-empty heaps.
C23_Witness ==
    /\ result.op = "GetAIMoveOrder"
    /\ result.order = "AI_MOVE_SECOND"
    /\ \A k \in 1..4 : Heaps(bar)[k] >= 1
    /\ NimSum(bar) = 0

====
